---------------------------- MODULE Spec2Model ----------------------------
(***************************************************************************)
(* A model of scipy/stats/contingency.py: margins, expected_freq,          *)
(* chi2_contingency and association.                                       *)
(*                                                                         *)
(* Each of the four functions is pure; the state machine draws a table     *)
(* (shape, dtype, cells) in Init and one action per function applies it    *)
(* and records what it returned or which error it raised.                  *)
(*                                                                         *)
(* Numbers.  A float64 is modelled as an exact rational or one of the      *)
(* IEEE special values the code can produce by dividing by zero:           *)
(*     [k |-> "fin", n |-> numerator, d |-> denominator > 0]  (lowest      *)
(*     terms), [k |-> "nan"], [k |-> "pinf"], [k |-> "ninf"].              *)
(* Rounding of quotients to 53 bits is not modelled (the tables are small  *)
(* integer counts); division by zero, NaN propagation and comparison with  *)
(* NaN are modelled as numpy computes them.                                *)
(*                                                                         *)
(* Arrays.  An ndarray is [shape, dtype, data] with data a function from   *)
(* the 0-based index tuples of the shape to numbers.                       *)
(***************************************************************************)
EXTENDS Integers, Sequences, FiniteSets, TLC

(***************************************************************************)
(* Bounds of the explored inputs.                                          *)
(***************************************************************************)
\* Largest number of dimensions of a table.
MaxRank == 3
\* Largest number of cells of a table (the product of its axis lengths).
MaxSize == 6
\* Largest value of one cell.
MaxCell == 2
\* Largest sum of the absolute values of the cells of a table.
MaxTotal == 3

(***************************************************************************)
(* float64 arithmetic                                                      *)
(***************************************************************************)
Abs(x) == IF x < 0 THEN -x ELSE x

RECURSIVE Gcd(_, _)
Gcd(a, b) == IF b = 0 THEN a ELSE Gcd(b, a % b)

\* The rational n/d (d # 0) in lowest terms with a positive denominator.
Fin(n, d) ==
    LET s == IF d < 0 THEN -1 ELSE 1
        g == Gcd(Abs(n), Abs(d))
    IN  [k |-> "fin", n |-> (s * n) \div g, d |-> Abs(d) \div g]

NaN == [k |-> "nan", n |-> 0, d |-> 1]
PInf == [k |-> "pinf", n |-> 1, d |-> 1]
NInf == [k |-> "ninf", n |-> -1, d |-> 1]
Zero == Fin(0, 1)
One == Fin(1, 1)
Half == Fin(1, 2)

IsNaN(a) == a.k = "nan"
IsFin(a) == a.k = "fin"
IsInf(a) == a.k \in {"pinf", "ninf"}
\* -1, 0 or 1 for a number that is not NaN.
Sgn(a) == IF a.n > 0 THEN 1 ELSE IF a.n < 0 THEN -1 ELSE 0
InfOf(s) == IF s > 0 THEN PInf ELSE NInf

\* a == b, a < b, a <= b of float64: every comparison with NaN is False.
FEq(a, b) == /\ ~IsNaN(a) /\ ~IsNaN(b)
             /\ a.k = b.k
             /\ (IsFin(a) => (a.n = b.n /\ a.d = b.d))
FLt(a, b) == /\ ~IsNaN(a) /\ ~IsNaN(b)
             /\ CASE IsFin(a) /\ IsFin(b) -> a.n * b.d < b.n * a.d
                  [] a.k = "ninf" -> b.k # "ninf"
                  [] a.k = "pinf" -> FALSE
                  [] OTHER -> b.k = "pinf"
FLe(a, b) == FLt(a, b) \/ FEq(a, b)

FNeg(a) == CASE IsNaN(a) -> NaN
             [] a.k = "pinf" -> NInf
             [] a.k = "ninf" -> PInf
             [] OTHER -> Fin(-a.n, a.d)

FAdd(a, b) ==
    CASE IsNaN(a) \/ IsNaN(b) -> NaN
      [] IsInf(a) /\ IsInf(b) -> IF a.k = b.k THEN a ELSE NaN
      [] IsInf(a) -> a
      [] IsInf(b) -> b
      [] OTHER -> Fin(a.n * b.d + b.n * a.d, a.d * b.d)

FSub(a, b) == FAdd(a, FNeg(b))

FMul(a, b) ==
    CASE IsNaN(a) \/ IsNaN(b) -> NaN
      [] IsInf(a) \/ IsInf(b) ->
            IF Sgn(a) * Sgn(b) = 0 THEN NaN ELSE InfOf(Sgn(a) * Sgn(b))
      [] OTHER -> Fin(a.n * b.n, a.d * b.d)

\* numpy's true division: x/0 is NaN for x = 0 and a signed infinity
\* otherwise (a RuntimeWarning, not an exception).
FDiv(a, b) ==
    CASE IsNaN(a) \/ IsNaN(b) -> NaN
      [] IsInf(a) /\ IsInf(b) -> NaN
      [] IsInf(a) -> InfOf(Sgn(a) * (IF Sgn(b) < 0 THEN -1 ELSE 1))
      [] IsInf(b) -> Zero
      [] b.n = 0 -> IF a.n = 0 THEN NaN ELSE InfOf(Sgn(a))
      [] OTHER -> Fin(a.n * b.d, a.d * b.n)

\* a ** e for an integer e >= 0; x ** 0 is 1.0 for every x.
RECURSIVE FPow(_, _)
FPow(a, e) == IF e = 0 THEN One ELSE FMul(a, FPow(a, e - 1))

\* np.abs, np.sign and np.minimum: each propagates NaN.
FAbs(a) == CASE IsNaN(a) -> NaN
             [] IsInf(a) -> PInf
             [] OTHER -> Fin(Abs(a.n), a.d)
FSign(a) == IF IsNaN(a) THEN NaN ELSE Fin(Sgn(a), 1)
FMinimum(a, b) == CASE IsNaN(a) \/ IsNaN(b) -> NaN
                    [] FLe(a, b) -> a
                    [] OTHER -> b

(***************************************************************************)
(* ndarrays                                                                *)
(***************************************************************************)
Dtypes == {"int64", "float64"}

\* The index tuples of an array of the given shape (0-based, as in numpy).
RECURSIVE Indices(_)
Indices(shape) ==
    IF shape = <<>> THEN {<<>>}
    ELSE {<<i>> \o rest : i \in 0..(Head(shape) - 1), rest \in Indices(Tail(shape))}

RECURSIVE Prod(_)
Prod(shape) == IF shape = <<>> THEN 1 ELSE Head(shape) * Prod(Tail(shape))

RECURSIVE SumSeq(_)
SumSeq(shape) == IF shape = <<>> THEN 0 ELSE Head(shape) + SumSeq(Tail(shape))

\* a.ndim, a.size
Ndim(a) == Len(a.shape)
Size(a) == Prod(a.shape)

\* Row-major (C) order of two index tuples of the same length.
RowMajorLess(i, j) ==
    \E p \in 1..Len(i) :
        /\ i[p] < j[p]
        /\ \A q \in 1..(p - 1) : i[q] = j[q]

\* The sum of f[x] over x in S.
RECURSIVE SumOver(_, _)
SumOver(f, S) ==
    IF S = {} THEN Zero
    ELSE LET x == CHOOSE y \in S : TRUE
         IN  FAdd(f[x], SumOver(f, S \ {x}))

\* a.sum()
ArraySum(a) == SumOver(a.data, Indices(a.shape))

\* np.asarray(a, dtype=np.float64): the values are kept, the dtype changes.
AsFloat64(a) == [a EXCEPT !.dtype = "float64"]

\* np.sum(a, axis=j) put back with the summed axis kept as length 1, as
\* np.apply_over_axes does after each reduction (j is 1-based here).
SumAxis(a, j) ==
    LET shp == [a.shape EXCEPT ![j] = 1]
    IN  [shape |-> shp,
         dtype |-> a.dtype,
         data  |-> [idx \in Indices(shp) |->
                      SumOver([i \in 0..(a.shape[j] - 1) |->
                                  a.data[[idx EXCEPT ![j] = i]]],
                              0..(a.shape[j] - 1))]]

\* np.apply_over_axes(np.sum, a, axes): sums over each axis of the list in turn.
RECURSIVE ApplyOverAxes(_, _)
ApplyOverAxes(a, axes) ==
    IF axes = <<>> THEN a
    ELSE ApplyOverAxes(SumAxis(a, Head(axes)), Tail(axes))

\* [j for j in ranged if j != k], ascending.
RECURSIVE AxesExcept(_, _, _)
AxesExcept(j, n, k) ==
    IF j > n THEN <<>>
    ELSE IF j = k THEN AxesExcept(j + 1, n, k)
    ELSE <<j>> \o AxesExcept(j + 1, n, k)

\* Marg with the wrong axes: axis k itself is summed, the others are kept.
Marg_OnlyK(a, k) == ApplyOverAxes(a, <<k>>)

\* The marginal sum for axis k alone.
Marg(a, k) == ApplyOverAxes(a, AxesExcept(1, Ndim(a), k))

\* margins(a): the list of the marginal sums, one per axis.
margins(a) == [k \in 1..Ndim(a) |-> Marg(a, k)]

\* The element of b that broadcasting pairs with index idx of the full shape.
BGet(b, idx) == b.data[[i \in 1..Len(idx) |-> IF b.shape[i] = 1 THEN 0 ELSE idx[i]]]

\* np.multiply(x, y) of two arrays of the same rank with broadcasting.
Multiply(x, y) ==
    LET shp == [i \in 1..Len(x.shape) |->
                   IF x.shape[i] = 1 THEN y.shape[i] ELSE x.shape[i]]
    IN  [shape |-> shp,
         dtype |-> x.dtype,
         data  |-> [idx \in Indices(shp) |-> FMul(BGet(x, idx), BGet(y, idx))]]

\* reduce(np.multiply, margsums)
RECURSIVE ReduceMultiply(_)
ReduceMultiply(ms) ==
    IF Len(ms) = 1 THEN ms[1]
    ELSE Multiply(ReduceMultiply(SubSeq(ms, 1, Len(ms) - 1)), ms[Len(ms)])

\* ExpectedPower with the exponent one too large.
ExpectedPower_D(d) == d

\* The exponent d - 1 of the total count in expected_freq.
ExpectedPower(d) == d - 1

\* An array divided by a scalar, cell by cell; the result is float64.
TrueDivide(num, den) ==
    [shape |-> num.shape,
     dtype |-> "float64",
     data  |-> [idx \in Indices(num.shape) |-> FDiv(num.data[idx], den)]]

\* Lines 122-129 on the float64 table: the product of the marginal sums
\* over the total to the power d - 1.
ExpectedOf(observed) ==
    TrueDivide(ReduceMultiply(margins(observed)),
               FPow(ArraySum(observed), ExpectedPower(Ndim(observed))))

\* expected_freq(observed)
expected_freq(obs) == ExpectedOf(AsFloat64(obs))

(***************************************************************************)
(* chi2_contingency                                                        *)
(***************************************************************************)
\* Values of the result fields a call did not produce.
NoArray == [shape |-> <<>>, dtype |-> "none", data |-> <<>>]
NoNumber == [k |-> "none", n |-> 0, d |-> 1]
NoP == [k |-> "none", x |-> NoNumber, df |-> 0]
NoCall == [called |-> FALSE, f_obs |-> NoArray, f_exp |-> NoArray, ddof |-> 0]
NoReal == [k |-> "none", n |-> 0, d |-> 1, r |-> 1]

\* np.any(observed < 0)
AnyNegative(observed) ==
    \E idx \in Indices(observed.shape) : FLt(observed.data[idx], Zero)

\* np.any(expected == 0)
AnyZero(expected) ==
    \E idx \in Indices(expected.shape) : FEq(expected.data[idx], Zero)

\* ZeroPos taking the last zero position instead of the first.
ZeroPos_Last(expected) ==
    LET zeros == {idx \in Indices(expected.shape) : FEq(expected.data[idx], Zero)}
    IN  CHOOSE z \in zeros : \A w \in zeros : w = z \/ RowMajorLess(w, z)

\* list(zip(*np.nonzero(expected == 0)))[0]: np.nonzero lists the positions
\* in row-major order, and the first of them is taken.
ZeroPos(expected) ==
    LET zeros == {idx \in Indices(expected.shape) : FEq(expected.data[idx], Zero)}
    IN  CHOOSE z \in zeros : \A w \in zeros : w = z \/ RowMajorLess(z, w)

\* Dof without the number of dimensions.
Dof_NoNdim(expected) == Size(expected) - SumSeq(expected.shape) - 1

\* dof = expected.size - sum(expected.shape) + expected.ndim - 1
Dof(expected) == Size(expected) - SumSeq(expected.shape) + Ndim(expected) - 1

\* Yates' correction for continuity (the branch dof == 1 and correction).
Yates(observed, expected) ==
    [shape |-> observed.shape,
     dtype |-> "float64",
     data  |-> [idx \in Indices(observed.shape) |->
                  LET diff == FSub(expected.data[idx], observed.data[idx])
                      direction == FSign(diff)
                      magnitude == FMinimum(Half, FAbs(diff))
                  IN  FAdd(observed.data[idx], FMul(magnitude, direction))]]

\* Ddof without the - 1.
Ddof_NoMinusOne(observed, dof_) == Size(observed) - dof_

\* ddof = observed.size - 1 - dof
Ddof(observed, dof_) == Size(observed) - 1 - dof_

\* The external divergence function with the default family (lambda_=None)
\* and axis=None: Pearson's statistic sum((f_obs - f_exp)**2 / f_exp) over
\* all cells, and the chi-square survival function of it with
\* size - 1 - ddof degrees of freedom, kept symbolic as [k |-> "sf", x, df].
power_divergence(f_obs, f_exp, ddof) ==
    LET terms == [idx \in Indices(f_obs.shape) |->
                    LET diff == FSub(f_obs.data[idx], f_exp.data[idx])
                    IN  FDiv(FMul(diff, diff), f_exp.data[idx])]
        stat == SumOver(terms, Indices(f_obs.shape))
    IN  [stat |-> stat,
         p    |-> [k |-> "sf", x |-> stat, df |-> Size(f_obs) - 1 - ddof]]

\* The literal p = 1.0 of the degenerate branch.
POne == [k |-> "lit", x |-> One, df |-> 0]

Raise(err) ==
    [error |-> err, chi2 |-> NoNumber, p |-> NoP, dof |-> -1,
     expected |-> NoArray, zeropos |-> <<>>, pd |-> NoCall]

\* The statistic: lines 296-300, the call of power_divergence with the
\* table f_obs and the offset ddof, and the tuple returned.
Chi2Statistic(f_obs, expected_, dof_, ddof, r) ==
    [error |-> "none", chi2 |-> r.stat, p |-> r.p, dof |-> dof_,
     expected |-> expected_, zeropos |-> <<>>,
     pd |-> [called |-> TRUE, f_obs |-> f_obs, f_exp |-> expected_,
             ddof |-> ddof]]

\* Lines 296-298 with the table f_obs that lines 288-294 chose.
Chi2Divergence(f_obs, expected_, dof_) ==
    Chi2Statistic(f_obs, expected_, dof_, Ddof(f_obs, dof_),
                  power_divergence(f_obs, expected_, Ddof(f_obs, dof_)))

\* Lines 281-300: the branch on the degrees of freedom.
Chi2Branch(observed, correction_, expected_, dof_) ==
    IF dof_ = 0
    THEN [error |-> "none", chi2 |-> Zero, p |-> POne, dof |-> dof_,
          expected |-> expected_, zeropos |-> <<>>, pd |-> NoCall]
    ELSE IF dof_ = 1 /\ correction_
    THEN Chi2Divergence(Yates(observed, expected_), expected_, dof_)
    ELSE Chi2Divergence(observed, expected_, dof_)

\* Lines 271-279: the check of the expected table, and the dof.
Chi2Expected(observed, correction_, expected_) ==
    IF AnyZero(expected_)
    THEN [Raise("DegenerateExpectedCell") EXCEPT !.zeropos = ZeroPos(expected_)]
    ELSE Chi2Branch(observed, correction_, expected_, Dof(expected_))

\* chi2_contingency(observed, correction, lambda_=None): what it returns, or
\* the error it raises, and the call it makes to power_divergence.
chi2_contingency(observed, correction_) ==
    IF AnyNegative(observed) THEN Raise("NegativeValue")
    ELSE IF Size(observed) = 0 THEN Raise("EmptyInput")
    ELSE Chi2Expected(observed, correction_, expected_freq(observed))

(***************************************************************************)
(* association                                                             *)
(***************************************************************************)
\* A real number kept exact: the r-th root of the number [k, n, d].
Real(a, r) == [k |-> a.k, n |-> a.n, d |-> a.d, r |-> r]

\* math.sqrt(x): the root doubles; sqrt(nan) is nan and sqrt(inf) is inf.
\* (x is never negative here: the statistic is a sum of squares over
\* positive expected values.)
MathSqrt(x) == IF x.k = "fin" THEN [x EXCEPT !.r = 2 * x.r] ELSE x

Methods == {"cramer", "tschuprow", "pearson"}
\* A method token outside the three the function knows.
OtherMethods == {"phi"}

Min(a, b) == IF a <= b THEN a ELSE b

\* value = phi2 / min(n_cols - 1, n_rows - 1)
CramerValue(phi2, n_rows, n_cols) ==
    Real(FDiv(phi2, Fin(Min(n_cols - 1, n_rows - 1), 1)), 1)

\* value = phi2 / math.sqrt((n_rows - 1) * (n_cols - 1)); for phi2 >= 0 and
\* a positive product this is the square root of phi2**2 / product.
TschuprowValue(phi2, n_rows, n_cols) ==
    LET prod == (n_rows - 1) * (n_cols - 1)
    IN  IF prod = 0 \/ ~IsFin(phi2)
        THEN Real(FDiv(phi2, Fin(prod, 1)), 1)
        ELSE Real(FDiv(FMul(phi2, phi2), Fin(prod, 1)), 2)

\* value = phi2 / (1 + phi2)
PearsonValue(phi2) == Real(FDiv(phi2, FAdd(One, phi2)), 1)

\* IsIntegerDtype with the check left out.
IsIntegerDtype_Any(arr) == TRUE

\* np.issubdtype(arr.dtype, np.integer)
IsIntegerDtype(arr) == arr.dtype = "int64"

\* Lines 390-401: the coefficient of the method from phi2, or the error
\* for a method that is none of the three.
AssociationValue(phi2, n_rows, n_cols, method_) ==
    CASE method_ = "cramer" ->
           [error |-> "none",
            value |-> MathSqrt(CramerValue(phi2, n_rows, n_cols))]
      [] method_ = "tschuprow" ->
           [error |-> "none",
            value |-> MathSqrt(TschuprowValue(phi2, n_rows, n_cols))]
      [] method_ = "pearson" ->
           [error |-> "none", value |-> MathSqrt(PearsonValue(phi2))]
      [] OTHER -> [error |-> "UnknownMethod", value |-> NoReal]

\* Lines 386-389: a ValueError of chi2_contingency propagates; otherwise
\* phi2 = chi2_stat[0] / arr.sum().
AssociationOf(arr, method_, chi2_stat) ==
    IF chi2_stat.error # "none"
    THEN [error |-> chi2_stat.error, value |-> NoReal]
    ELSE AssociationValue(FDiv(chi2_stat.chi2, ArraySum(arr)),
                          arr.shape[1], arr.shape[2], method_)

\* association(observed, method, correction, lambda_=None): the value it
\* returns or the error it raises.
association(arr, method_, correction_) ==
    IF ~IsIntegerDtype(arr) THEN [error |-> "WrongDtype", value |-> NoReal]
    ELSE IF Len(arr.shape) # 2 THEN [error |-> "WrongRank", value |-> NoReal]
    ELSE AssociationOf(arr, method_, chi2_contingency(arr, correction_))

(***************************************************************************)
(* The state machine: one table, one call.                                 *)
(***************************************************************************)
VARIABLES
    observed,    \* the caller's table
    op,          \* the function called: "none" before the call
    correction,  \* the correction argument of the call
    method,      \* the method argument of the call
    error,       \* "none", or the kind of the ValueError raised
    margsums,    \* what margins returned
    expected,    \* the expected table returned
    chi2,        \* the statistic returned
    p,           \* the p-value returned
    dof,         \* the degrees of freedom returned
    zeropos,     \* the coordinate named in the zero-element error
    pd,          \* the call made to power_divergence, if any
    value        \* what association returned

vars == <<observed, op, correction, method, error, margsums, expected,
          chi2, p, dof, zeropos, pd, value>>

\* The shapes explored: 1 to MaxRank axes, at most MaxSize cells; an axis
\* of length 0 makes the table empty.
Shapes ==
    {s \in UNION {[1..n -> 0..MaxSize] : n \in 1..MaxRank} : Prod(s) <= MaxSize}

CellValues == (-1)..MaxCell

RECURSIVE AbsTotal(_, _)
AbsTotal(f, S) ==
    IF S = {} THEN 0
    ELSE LET x == CHOOSE y \in S : TRUE
         IN  Abs(f[x]) + AbsTotal(f, S \ {x})

\* The table with the given shape, dtype and integer cells.
Table(s, t, f) ==
    [shape |-> s, dtype |-> t, data |-> [idx \in Indices(s) |-> Fin(f[idx], 1)]]

\* The tables explored are small integer counts, -1 included so that the
\* validation has something to reject, of either dtype.
Init ==
    /\ \E s \in Shapes : \E f \in [Indices(s) -> CellValues] : \E t \in Dtypes :
          /\ AbsTotal(f, Indices(s)) <= MaxTotal
          /\ observed = Table(s, t, f)
    /\ op = "none"
    /\ correction = FALSE
    /\ method = "none"
    /\ error = "none"
    /\ margsums = <<>>
    /\ expected = NoArray
    /\ chi2 = NoNumber
    /\ p = NoP
    /\ dof = -1
    /\ zeropos = <<>>
    /\ pd = NoCall
    /\ value = NoReal

\* margins(observed)
Margins ==
    /\ op = "none"
    /\ op' = "margins"
    /\ margsums' = margins(observed)
    /\ UNCHANGED <<observed, correction, method, error, expected, chi2, p,
                   dof, zeropos, pd, value>>

\* expected_freq(observed)
ExpectedFreq ==
    /\ op = "none"
    /\ op' = "expected_freq"
    /\ expected' = expected_freq(observed)
    /\ UNCHANGED <<observed, correction, method, error, margsums, chi2, p,
                   dof, zeropos, pd, value>>

\* The state after a call of chi2_contingency that returned or raised r.
Chi2Done(c, r) ==
    /\ op' = "chi2_contingency"
    /\ correction' = c
    /\ error' = r.error
    /\ expected' = r.expected
    /\ chi2' = r.chi2
    /\ p' = r.p
    /\ dof' = r.dof
    /\ zeropos' = r.zeropos
    /\ pd' = r.pd
    /\ UNCHANGED <<observed, method, margsums, value>>

\* chi2_contingency(observed, correction=c)
Chi2Contingency ==
    /\ op = "none"
    /\ \E c \in BOOLEAN : Chi2Done(c, chi2_contingency(observed, c))

\* The state after a call of association that returned or raised r.
AssociationDone(m, c, r) ==
    /\ op' = "association"
    /\ method' = m
    /\ correction' = c
    /\ error' = r.error
    /\ value' = r.value
    /\ UNCHANGED <<observed, margsums, expected, chi2, p, dof, zeropos, pd>>

\* association(observed, method=m, correction=c)
Association ==
    /\ op = "none"
    /\ \E m \in Methods \cup OtherMethods, c \in BOOLEAN :
          AssociationDone(m, c, association(observed, m, c))

Next == Margins \/ ExpectedFreq \/ Chi2Contingency \/ Association

Spec == Init /\ [][Next]_vars

\* One specification per function: the table of Init, and the one call.
SpecMargins == Init /\ [][Margins]_vars
SpecExpectedFreq == Init /\ [][ExpectedFreq]_vars
SpecChi2 == Init /\ [][Chi2Contingency]_vars
SpecAssociation == Init /\ [][Association]_vars

(***************************************************************************)
(* Vocabulary of the properties.  These are stated on the table itself,    *)
(* not through the operators above.                                        *)
(***************************************************************************)
Cells(a) == Indices(a.shape)
Cell(a, idx) == a.data[idx]

\* The table the call was given, cell by cell.
SomeCellNegative == \E idx \in Cells(observed) : Cell(observed, idx).n < 0
AllCellsNonNeg == \A idx \in Cells(observed) : Cell(observed, idx).n >= 0
AllCellsPositive == \A idx \in Cells(observed) : Cell(observed, idx).n > 0
AllCellsZero == \A idx \in Cells(observed) : Cell(observed, idx).n = 0
IsEmpty == \E i \in 1..Len(observed.shape) : observed.shape[i] = 0
NonEmpty == ~IsEmpty
Rank == Len(observed.shape)

\* The sum of all cells of the caller's table, as an integer.
RECURSIVE IntTotal(_)
IntTotal(S) ==
    IF S = {} THEN 0
    ELSE LET x == CHOOSE y \in S : TRUE
         IN  Cell(observed, x).n + IntTotal(S \ {x})
GrandTotal == IntTotal(Cells(observed))

\* Two arrays of the same shape whose cells compare equal (==) pairwise.
SameCells(a, b) ==
    /\ a.shape = b.shape
    /\ \A idx \in Cells(a) : FEq(Cell(a, idx), Cell(b, idx))

\* The position of an index tuple in the row-major listing of a shape.
RECURSIVE Offset(_, _, _)
Offset(idx, shape, i) ==
    IF i = 0 THEN 0
    ELSE Offset(idx, shape, i - 1) * shape[i] + idx[i]
Position(idx, shape) == Offset(idx, shape, Len(shape))

\* Nothing was returned by chi2_contingency.
NoChi2Result ==
    /\ chi2 = NoNumber /\ p = NoP /\ dof = -1 /\ expected = NoArray
    /\ pd = NoCall

Called(f) == op = f
Returned(f) == op = f /\ error = "none"

(***************************************************************************)
(* C1                                                                      *)
(***************************************************************************)
\* What C1 promises of a call: the degenerate result, and the expected
\* table equal to the observed one.
TrivialResult ==
    /\ error = "none"
    /\ chi2 = Zero
    /\ p = POne
    /\ dof = 0
    /\ SameCells(expected, observed)

\* C1 as stated: for every 1-D table of length >= 1 whose cells are all
\* >= 0, zero cells included, chi2_contingency returns statistic 0.0,
\* p-value 1.0, dof 0 and expected equal to observed.
C1_AsStated ==
    (Called("chi2_contingency") /\ Rank = 1 /\ NonEmpty /\ AllCellsNonNeg)
        => TrivialResult

\* C1 amended: for every 1-D table of length >= 1 whose cells are all > 0,
\* chi2_contingency returns statistic 0.0, p-value 1.0, dof 0 and expected
\* equal to observed; a 1-D table with a zero cell is rejected with the
\* zero-expected-element error and returns nothing.
C1_PositiveOneDim ==
    (Called("chi2_contingency") /\ Rank = 1 /\ NonEmpty /\ AllCellsNonNeg)
        => IF AllCellsPositive
           THEN TrivialResult
           ELSE error = "DegenerateExpectedCell" /\ NoChi2Result

\* A 1-D table of three positive cells went through chi2_contingency.
C1_Witness ==
    /\ Returned("chi2_contingency")
    /\ observed.shape = <<3>>
    /\ AllCellsPositive
    /\ dof = 0

(***************************************************************************)
(* C2                                                                      *)
(***************************************************************************)
\* The cells of the expected table of the caller's table that are exactly 0.
ExpectedZeros ==
    LET e == expected_freq(observed)
    IN  {idx \in Cells(e) : Cell(e, idx) = Zero}

\* What C2 says of a call, zeros being the cells of the expected table of
\* the caller's table that are exactly 0.
C2_Of(zeros) ==
    /\ SomeCellNegative => error = "NegativeValue"
    /\ IsEmpty => error = "EmptyInput"
    /\ (AllCellsNonNeg /\ NonEmpty /\ zeros # {}) =>
          /\ error = "DegenerateExpectedCell"
          /\ zeropos \in zeros
          /\ \A z \in zeros :
                Position(zeropos, observed.shape) <= Position(z, observed.shape)
    /\ (error = "none") <=> (AllCellsNonNeg /\ NonEmpty /\ zeros = {})
    /\ error = "none" =>
          \A idx \in Cells(expected) : Cell(expected, idx) # Zero
    /\ error # "none" => NoChi2Result
    /\ error # "DegenerateExpectedCell" => zeropos = <<>>

\* C2: chi2_contingency returns a result only for a table that is
\* non-empty, has no negative cell and whose expected table has no cell
\* equal to 0; it raises NegativeValue when some cell is negative,
\* EmptyInput when the table has no element, and, for a table that passed
\* both checks, DegenerateExpectedCell when some expected cell is exactly
\* 0, naming the first such cell in row-major order; an error returns
\* nothing.
C2_ErrorsAndResult ==
    Called("chi2_contingency") => C2_Of(ExpectedZeros)

\* A table with several zero expected cells, the first of them not the
\* first cell, was rejected.
C2_Witness ==
    /\ Called("chi2_contingency")
    /\ error = "DegenerateExpectedCell"
    /\ Rank = 2
    /\ Cardinality(ExpectedZeros) >= 2
    /\ Position(zeropos, observed.shape) > 0

(***************************************************************************)
(* C3                                                                      *)
(***************************************************************************)
\* The cell was moved from o toward e by exactly min(0.5, |e - o|): it
\* lies between o and e, at that distance from o.
MovedToward(o, e, c) ==
    LET gap == FAbs(FSub(e, o))
        step == IF FLe(gap, Half) THEN gap ELSE Half
    IN  /\ FEq(FAbs(FSub(c, o)), step)
        /\ FLe(FAbs(FSub(c, o)), Half)
        /\ \/ FLe(o, c) /\ FLe(c, e)
           \/ FLe(e, c) /\ FLe(c, o)

\* C3: the observed table handed to the divergence function differs from
\* the caller's table only when dof == 1 and correction is true, whatever
\* the rank; then every cell is moved toward its expected value by exactly
\* min(0.5, |expected - observed|), so by no more than 0.5 and never past
\* the expected value; otherwise the table is passed unchanged.
C3_YatesBounded ==
    (Called("chi2_contingency") /\ pd.called) =>
        /\ pd.f_obs.shape = observed.shape
        /\ IF dof = 1 /\ correction
           THEN \A idx \in Cells(observed) :
                   MovedToward(Cell(observed, idx), Cell(pd.f_exp, idx),
                               Cell(pd.f_obs, idx))
           ELSE \A idx \in Cells(observed) :
                   Cell(pd.f_obs, idx) = Cell(observed, idx)

\* The same on the tables whose total count is positive.
C3_YatesBoundedPositiveTotal ==
    (Called("chi2_contingency") /\ pd.called /\ GrandTotal > 0) =>
        /\ pd.f_obs.shape = observed.shape
        /\ IF dof = 1 /\ correction
           THEN \A idx \in Cells(observed) :
                   MovedToward(Cell(observed, idx), Cell(pd.f_exp, idx),
                               Cell(pd.f_obs, idx))
           ELSE \A idx \in Cells(observed) :
                   Cell(pd.f_obs, idx) = Cell(observed, idx)

\* A table of rank 3 with dof 1 and a positive total was corrected: a cell
\* more than 0.5 away from its expected value was moved by exactly 0.5.
C3_Witness ==
    /\ Returned("chi2_contingency")
    /\ pd.called /\ dof = 1 /\ correction /\ Rank = 3 /\ GrandTotal > 0
    /\ \E i \in Cells(observed) :
          /\ FLt(Half, FAbs(FSub(Cell(pd.f_exp, i), Cell(observed, i))))
          /\ FEq(FAbs(FSub(Cell(pd.f_obs, i), Cell(observed, i))), Half)

(***************************************************************************)
(* C4                                                                      *)
(***************************************************************************)
\* C4: for every accepted 2-D table of shape R x C, the dof returned is
\* (R-1)(C-1), and when the divergence function is called, the offset ddof
\* it is given satisfies size - 1 - ddof = dof.
C4_DofTwoDim ==
    (Returned("chi2_contingency") /\ Rank = 2) =>
        /\ dof = (observed.shape[1] - 1) * (observed.shape[2] - 1)
        /\ dof = 0 <=> ~pd.called
        /\ pd.called =>
              observed.shape[1] * observed.shape[2] - 1 - pd.ddof = dof

\* A 2 x 3 table was accepted and the divergence function called.
C4_Witness ==
    /\ Returned("chi2_contingency")
    /\ observed.shape = <<2, 3>>
    /\ GrandTotal > 0
    /\ pd.called
    /\ dof = 2

(***************************************************************************)
(* C9                                                                      *)
(***************************************************************************)
\* A NaN or an infinity in what chi2_contingency returned.
ReturnedNotFinite ==
    \/ ~IsFin(chi2)
    \/ ~IsFin(p.x)
    \/ \E idx \in Cells(expected) : ~IsFin(Cell(expected, idx))

\* C9: for every non-empty table of any rank whose cells are all 0,
\* chi2_contingency raises an error and returns nothing, so that no NaN or
\* Inf appears in a returned statistic, p-value or expected table.
C9_ZeroTotalGuarded ==
    Called("chi2_contingency") =>
        /\ (NonEmpty /\ AllCellsZero) => (error # "none" /\ NoChi2Result)
        /\ error = "none" => ~ReturnedNotFinite

\* The guard that exists: an all-zero table of rank 1 is rejected.
C9_RankOneRejected ==
    (Called("chi2_contingency") /\ NonEmpty /\ AllCellsZero /\ Rank = 1)
        => error = "DegenerateExpectedCell"

\* An all-zero 2x2 table is returned with a NaN statistic and a NaN
\* expected table instead of an error.
C9_Witness ==
    /\ Returned("chi2_contingency")
    /\ observed.shape = <<2, 2>>
    /\ AllCellsZero
    /\ IsNaN(chi2)
    /\ \A idx \in Cells(expected) : IsNaN(Cell(expected, idx))

(***************************************************************************)
(* C10                                                                     *)
(***************************************************************************)
\* The axes of the caller's table that are longer than 1.
NonTrivialAxes == {i \in 1..Rank : observed.shape[i] > 1}

\* C10: on every accepted table (all axis lengths >= 1) the dof is never
\* negative and is 0 exactly when the table has only one non-trivial
\* dimension (no more than one axis longer than 1); whenever dof is 0,
\* expected equals observed cell for cell, and the result is statistic 0.0
\* and p-value 1.0 without a call of the divergence function.
C10_DegenerateDof ==
    Returned("chi2_contingency") =>
        /\ dof >= 0
        /\ dof = 0 <=> Cardinality(NonTrivialAxes) <= 1
        /\ dof = 0 =>
              /\ SameCells(expected, observed)
              /\ chi2 = Zero
              /\ p = POne
              /\ ~pd.called

\* The same without the equality of expected and observed.
C10_DegenerateDofShape ==
    Returned("chi2_contingency") =>
        /\ dof >= 0
        /\ dof = 0 <=> Cardinality(NonTrivialAxes) <= 1
        /\ dof = 0 => (chi2 = Zero /\ p = POne /\ ~pd.called)
        /\ (dof = 0 /\ GrandTotal > 0) => SameCells(expected, observed)

\* An all-zero 1x3 table is returned with dof 0, statistic 0.0 and an
\* expected table of NaN cells, which does not equal the caller's table.
C10_Witness ==
    /\ Returned("chi2_contingency")
    /\ observed.shape = <<1, 3>>
    /\ AllCellsZero
    /\ dof = 0
    /\ chi2 = Zero
    /\ ~SameCells(expected, observed)
    /\ \A idx \in Cells(expected) : IsNaN(Cell(expected, idx))

(***************************************************************************)
(* C5                                                                      *)
(***************************************************************************)
\* The r-th root of n/d lies in [0, 1] exactly when n/d does.
InUnitInterval(v) == v.k = "fin" /\ 0 <= v.n /\ v.n <= v.d

\* C5: for every 2-D integer table that chi2_contingency accepts, single
\* rows and single columns included, and every method in {cramer,
\* tschuprow, pearson}, with correction on or off, association returns a
\* number v with 0 <= v <= 1.
C5_UnitInterval ==
    Returned("association") => InUnitInterval(value)

\* The same on the tables with at least two rows, two columns and a
\* positive total.
C5_UnitIntervalProper ==
    (Returned("association") /\ observed.shape[1] >= 2
        /\ observed.shape[2] >= 2 /\ GrandTotal > 0)
        => InUnitInterval(value)

\* Pearson's coefficient of a single-row or single-column table of
\* positive cells is 0.
C5_PearsonSingleRow ==
    (Returned("association") /\ method = "pearson" /\ GrandTotal > 0
        /\ (observed.shape[1] = 1 \/ observed.shape[2] = 1))
        => (value.k = "fin" /\ value.n = 0)

\* Cramer's V of a single row of positive cells is returned as NaN.
C5_Witness ==
    /\ Returned("association")
    /\ method = "cramer"
    /\ observed.shape = <<1, 2>>
    /\ AllCellsPositive
    /\ value.k = "nan"

(***************************************************************************)
(* C6                                                                      *)
(***************************************************************************)
IntegerTyped == observed.dtype = "int64"
KnownMethod == method \in {"cramer", "tschuprow", "pearson"}
\* chi2_contingency accepts the caller's table.
Accepted == AllCellsNonNeg /\ NonEmpty /\ ExpectedZeros = {}

\* C6 as stated: association returns a value only for an integer-typed,
\* exactly 2-D table with a known method; it raises WrongDtype for every
\* table that is not integer-typed, WrongRank for every table of rank
\* other than 2, UnknownMethod for every method token outside the three,
\* and returns no value in these cases.
C6_AsStated ==
    Called("association") =>
        /\ error = "none" => (IntegerTyped /\ Rank = 2 /\ KnownMethod)
        /\ ~IntegerTyped => error = "WrongDtype"
        /\ Rank # 2 => error = "WrongRank"
        /\ ~KnownMethod => error = "UnknownMethod"
        /\ error # "none" => value = NoReal

\* C6 amended: the checks are made in the order dtype, rank, the
\* independence test, method.  association returns a value only for an
\* integer-typed, exactly 2-D table with a known method; it raises
\* WrongDtype for every table that is not integer-typed, WrongRank for
\* every integer-typed table of rank other than 2, the error of
\* chi2_contingency for every integer-typed 2-D table that test rejects
\* (whatever the method), and UnknownMethod for every unknown method given
\* with an integer-typed 2-D table the test accepts; an error returns no
\* value.
C6_ErrorsInOrder ==
    Called("association") =>
        /\ error = "none" =>
              (IntegerTyped /\ Rank = 2 /\ KnownMethod /\ Accepted)
        /\ ~IntegerTyped => error = "WrongDtype"
        /\ (IntegerTyped /\ Rank # 2) => error = "WrongRank"
        /\ (IntegerTyped /\ Rank = 2 /\ ~Accepted) =>
              error = (IF SomeCellNegative THEN "NegativeValue"
                       ELSE IF IsEmpty THEN "EmptyInput"
                       ELSE "DegenerateExpectedCell")
        /\ (IntegerTyped /\ Rank = 2 /\ Accepted /\ ~KnownMethod) =>
              error = "UnknownMethod"
        /\ (IntegerTyped /\ Rank = 2 /\ Accepted /\ KnownMethod) =>
              (error = "none" /\ value # NoReal)
        /\ error # "none" => value = NoReal

\* An unknown method was refused on a 2 x 2 integer table the
\* independence test accepts.
C6_Witness ==
    /\ Called("association")
    /\ error = "UnknownMethod"
    /\ observed.shape = <<2, 2>>
    /\ GrandTotal > 0

(***************************************************************************)
(* C7                                                                      *)
(***************************************************************************)
\* The sum of the cells of the expected table returned.
ExpectedTotal == SumOver(expected.data, Cells(expected))

\* C7 as stated: for every non-empty table of nonnegative cells of any
\* rank, expected_freq returns a table of the shape of the observed table
\* whose cells sum to the total of the observed cells.
C7_AsStated ==
    (Called("expected_freq") /\ NonEmpty /\ AllCellsNonNeg) =>
        /\ expected.shape = observed.shape
        /\ FEq(ExpectedTotal, Fin(GrandTotal, 1))

\* C7 amended: for every non-empty table of nonnegative cells that is 1-D
\* or has a positive total, expected_freq returns a float64 table of the
\* shape of the observed table whose cells sum to the total of the
\* observed cells; for a table of rank >= 2 whose cells are all 0 the
\* shape is kept and every cell is NaN.
C7_TotalPreserved ==
    (Called("expected_freq") /\ NonEmpty /\ AllCellsNonNeg) =>
        /\ expected.shape = observed.shape
        /\ expected.dtype = "float64"
        /\ IF Rank = 1 \/ GrandTotal > 0
           THEN FEq(ExpectedTotal, Fin(GrandTotal, 1))
           ELSE \A idx \in Cells(expected) : IsNaN(Cell(expected, idx))

\* expected_freq was applied to a 2 x 3 table and produced a cell that is
\* not a whole number.
C7_Witness ==
    /\ Called("expected_freq")
    /\ observed.shape = <<2, 3>>
    /\ AllCellsNonNeg
    /\ \E idx \in Cells(expected) :
          IsFin(Cell(expected, idx)) /\ Cell(expected, idx).d > 1

(***************************************************************************)
(* C8                                                                      *)
(***************************************************************************)
\* The index tuple of rank n that is i on axis k and 0 elsewhere.
OnAxis(n, k, i) == [j \in 1..n |-> IF j = k THEN i ELSE 0]

\* C8: margins(table) has one element per axis; element k has the rank of
\* the table, length 1 on every other axis and the table's length on axis
\* k; its entry at index i along axis k is the sum of the table cells
\* whose axis-k index is i, and its entries sum to the grand total.
C8_Margins ==
    Called("margins") =>
        /\ Len(margsums) = Rank
        /\ \A k \in 1..Rank :
              LET m == margsums[k]
              IN  /\ Len(m.shape) = Rank
                  /\ \A j \in 1..Rank :
                        m.shape[j] = IF j = k THEN observed.shape[k] ELSE 1
                  /\ \A i \in 0..(observed.shape[k] - 1) :
                        m.data[OnAxis(Rank, k, i)] =
                            Fin(IntTotal({idx \in Cells(observed) : idx[k] = i}), 1)
                  /\ SumOver(m.data, Cells(m)) = Fin(GrandTotal, 1)

\* margins was applied to a table of rank 3 with two axes longer than 1
\* and cells that are not all equal.
C8_Witness ==
    /\ Called("margins")
    /\ observed.shape = <<2, 1, 3>>
    /\ GrandTotal = 3
    /\ \E i, j \in Cells(observed) : Cell(observed, i) # Cell(observed, j)

=============================================================================
